---- MODULE Spec2Model ----
(***************************************************************************)
(* Model of signTransaction of the AGW client (qvkare/agw-sdk): the        *)
(* configurable pipeline (src/unnamed/part_000:29-137) and the restricted  *)
(* pipeline (src/unnamed/part_000:166-250).  Each invocation is an async   *)
(* function: the code between two awaits runs atomically, so there is one  *)
(* action for the synchronous prefix of the call and one per await that    *)
(* returns.  External capabilities (live chain id, signer, hook registry)  *)
(* answer nondeterministically.                                            *)
(***************************************************************************)
EXTENDS Integers, Sequences, FiniteSets, TLC

\* ------------------------------------------------------------------ bounds
\* Longest enabled-hook list the account contract returns.
MaxHooks == 2

\* ------------------------------------------------------------ program data
Procs == {1, 2}

\* the abstractTestnet.id and abstract.id
AbstractTestnetId == 11124
AbstractMainnetId == 2741

\* VALID_CHAINS of ../utils.js: the registry of supported chains, keyed by id.
VALID_CHAINS == {AbstractTestnetId, AbstractMainnetId}
\* ALLOWED_CHAINS of the restricted pipeline.
ALLOWED_CHAINS == {AbstractTestnetId}

\* An optional value is a sequence of length 0 (undefined) or 1.
None == <<>>
Some(v) == <<v>>
IsSome(o) == Len(o) = 1
Get(o) == o[1]

\* Account addresses (strings as the code sees them); "undefined" is no account.
NoAccount == "undefined"
ClientAccount == "0xAccountA"
OverrideAccount == "0xAccountB"
SignerAccounts == {"0xSignerS", "0xSignerT"}

\* Byte strings (the Hex) are sequences of bytes.
Rep(n, b) == [i \in 1..n |-> b]
EmptyBytes == <<>>
\* 65-byte signatures the signer can return
Sig1 == Rep(65, 17)
Sig2 == Rep(64, 34) \o <<27>>
RawSignatures == {Sig1, Sig2}
\* validator addresses: two well-formed (20 bytes), one malformed (19 bytes)
Validator1 == Rep(20, 171)
Validator2 == Rep(20, 205)
BadValidator == Rep(19, 171)
\* hook addresses and hook payloads
HookA == "0xHookA"
HookB == "0xHookB"
HookAddrs == {HookA, HookB}
Payload1 == <<18, 52>>
Payload2 == Rep(33, 255)

\* The ordered lists listHooks can return.
RECURSIVE SeqsUpTo(_, _)
SeqsUpTo(S, n) ==
  IF n = 0 THEN {<<>>}
  ELSE LET shorter == SeqsUpTo(S, n - 1)
       IN shorter \cup {Append(s, x) : s \in {t \in shorter : Len(t) = n - 1}, x \in S}
HookLists == SeqsUpTo(HookAddrs, MaxHooks)

\* Caller-supplied validationHookData records (Record<string, Hex>).
HookMaps ==
  { [h \in {} |-> EmptyBytes],
    [h \in {HookA} |-> Payload1],
    [h \in {HookB} |-> Payload2],
    [h \in {HookA, HookB} |-> IF h = HookA THEN Payload1 ELSE EmptyBytes] }

\* A chain binding: id, and whether custom.getEip712Domain and
\* serializers.transaction are present.
Chain(id, dom, ser) == [id |-> id, getEip712Domain |-> dom, serializer |-> ser]

\* A numeric request field as the caller wrote it: a hex string or a number.
HexNum(n) == [hex |-> TRUE, n |-> n]
Num(n) == [hex |-> FALSE, n |-> n]

\* ------------------------------------------------------------ ABI encoding
\* encodeAbiParameters(parseAbiParameters(['bytes','address','bytes[]']), ...):
\* the head/tail layout of the contract ABI in 32-byte words.
Zeros(n) == Rep(n, 0)

\* a uint256 (below 2^24 here) as a big-endian 32-byte word
Word(n) ==
  [i \in 1..32 |-> IF i = 32 THEN n % 256
                   ELSE IF i = 31 THEN (n \div 256) % 256
                   ELSE IF i = 30 THEN (n \div 65536) % 256
                   ELSE 0]

\* bytes right-padded with zeros to a multiple of 32
PadRight(b) == b \o Zeros((32 - (Len(b) % 32)) % 32)

\* a dynamic `bytes` value: length word, then the padded data
EncodeBytes(b) == Word(Len(b)) \o PadRight(b)

\* an `address`: left-padded to one word
EncodeAddress(a) == Zeros(12) \o a

\* the isAddress: 20 bytes
IsAddress(a) == Len(a) = 20

\* offset of the tail of the i-th element in a dynamic array of n `bytes`
RECURSIVE ElemOffset(_, _)
ElemOffset(xs, i) ==
  IF i = 1 THEN 32 * Len(xs)
  ELSE ElemOffset(xs, i - 1) + Len(EncodeBytes(xs[i - 1]))

\* concatenation of a sequence of byte strings
RECURSIVE Flatten(_)
Flatten(ss) == IF ss = <<>> THEN <<>> ELSE Head(ss) \o Flatten(Tail(ss))

\* a `bytes[]`: length word, one offset word per element, then the elements
EncodeBytesArray(xs) ==
  Word(Len(xs))
    \o Flatten([i \in 1..Len(xs) |-> Word(ElemOffset(xs, i))])
    \o Flatten([i \in 1..Len(xs) |-> EncodeBytes(xs[i])])

\* (variant: the length word of the signature counts the padding)
EncodeAbiParametersPaddedLength(sig, validator, hookData) ==
  Word(96) \o EncodeAddress(validator) \o Word(96 + Len(EncodeBytes(sig)))
    \o Word(Len(PadRight(sig))) \o PadRight(sig) \o EncodeBytesArray(hookData)

\* encodeAbiParameters for (bytes, address, bytes[]): three head words (offset
\* of the bytes, the address, offset of the array), then the two tails.
EncodeAbiParameters(sig, validator, hookData) ==
  Word(96) \o EncodeAddress(validator) \o Word(96 + Len(EncodeBytes(sig)))
    \o EncodeBytes(sig) \o EncodeBytesArray(hookData)

\* The strict decode the account contract performs on the composite signature.
ReadWord(enc, pos) == enc[pos + 30] * 65536 + enc[pos + 31] * 256 + enc[pos + 32]
DecodeBytes(enc, pos) == SubSeq(enc, pos + 33, pos + 32 + ReadWord(enc, pos))
DecodeAddress(enc, pos) == SubSeq(enc, pos + 13, pos + 32)
DecodeBytesArray(enc, pos) ==
  [i \in 1..ReadWord(enc, pos) |->
     DecodeBytes(enc, pos + 32 + ReadWord(enc, pos + 32 * i))]
DecodeAbiParameters(enc) ==
  <<DecodeBytes(enc, ReadWord(enc, 0)),
    DecodeAddress(enc, 32),
    DecodeBytesArray(enc, ReadWord(enc, 64))>>

\* ------------------------------------------------------------------ inputs
ChainOptions ==
  { None,
    Some(Chain(AbstractTestnetId, TRUE, TRUE)),
    Some(Chain(AbstractMainnetId, TRUE, TRUE)),
    Some(Chain(1, TRUE, TRUE)),
    Some(Chain(AbstractTestnetId, FALSE, TRUE)),
    Some(Chain(AbstractTestnetId, TRUE, FALSE)) }

\* The arguments of one invocation: the two clients (client.account, client.chain,
\* signerClient.account), args (account, chain, chainId, value; wellFormed says
\* whether the remaining fields pass assertEip712Request), validator,
\* useSignerAddress and validationHookData.
ArgsOf(variants, maps) ==
  [ variant : variants,
    clientAccount : {NoAccount, ClientAccount},
    clientChain : {None, Some(Chain(AbstractTestnetId, TRUE, TRUE))},
    signer : {"0xSignerS"},
    account : {NoAccount, OverrideAccount},
    chain : ChainOptions,
    chainId : {None, Some(Num(AbstractTestnetId)), Some(HexNum(1))},
    value : {None, Some(HexNum(7))},
    wellFormed : BOOLEAN,
    validator : {Validator1, Validator2, BadValidator},
    useSignerAddress : BOOLEAN,
    validationHookData : maps ]

\* The restricted pipeline takes no validationHookData.
Inputs ==
  ArgsOf({"configurable"}, HookMaps)
    \cup ArgsOf({"restricted"}, {[h \in {} |-> EmptyBytes]})

\* Arguments of invocations that run side by side: all pass the pre-flight
\* checks and differ in pipeline, mode, signer and hook payloads.
ConcArgsOf(variants, signers, maps) ==
  [ variant : variants,
    clientAccount : {ClientAccount},
    clientChain : {Some(Chain(AbstractTestnetId, TRUE, TRUE))},
    signer : signers,
    account : {NoAccount},
    chain : {None},
    chainId : {None},
    value : {None},
    wellFormed : {TRUE},
    validator : {Validator1},
    useSignerAddress : BOOLEAN,
    validationHookData : maps ]

ConcInputs ==
  ConcArgsOf({"configurable"}, SignerAccounts,
             {[h \in {} |-> EmptyBytes], [h \in {HookA} |-> Payload1]})
    \cup ConcArgsOf({"restricted"}, {"0xSignerS"}, {[h \in {} |-> EmptyBytes]})

\* Arguments of the invocations followed to their end: every pre-flight
\* outcome, both modes, both pipelines, a good and a malformed validator.
LiveArgsOf(variants, maps) ==
  [ variant : variants,
    clientAccount : {NoAccount, ClientAccount},
    clientChain : {Some(Chain(AbstractTestnetId, TRUE, TRUE))},
    signer : {"0xSignerS"},
    account : {NoAccount, OverrideAccount},
    chain : ChainOptions,
    chainId : {None},
    value : {None},
    wellFormed : BOOLEAN,
    validator : {Validator1, BadValidator},
    useSignerAddress : BOOLEAN,
    validationHookData : maps ]

LiveInputs ==
  LiveArgsOf({"configurable"},
             {[h \in {} |-> EmptyBytes], [h \in {HookA} |-> Payload1]})
    \cup LiveArgsOf({"restricted"}, {[h \in {} |-> EmptyBytes]})

\* Requests on the test network given to the restricted pipeline and, with an
\* empty validationHookData, to the configurable one.
PairInputs ==
  [ variant : {"restricted"},
    clientAccount : {ClientAccount},
    clientChain : {Some(Chain(AbstractTestnetId, TRUE, TRUE))},
    signer : {"0xSignerS"},
    account : {NoAccount, OverrideAccount},
    chain : {None},
    chainId : {None, Some(HexNum(1))},
    value : {None, Some(HexNum(7))},
    wellFormed : {TRUE},
    validator : {Validator1, BadValidator},
    useSignerAddress : BOOLEAN,
    validationHookData : {[h \in {} |-> EmptyBytes]} ]

\* What the live chain-id read can answer, and failure of a capability.
LiveChainIds == {AbstractTestnetId, AbstractMainnetId}
Failure == None

\* ------------------------------------------------- pure parts of the pipeline
NoError == "none"

\* account: account_ = client.account
AccountOf(a) == IF a.account # NoAccount THEN a.account ELSE a.clientAccount

\* chain = client.chain
ChainOf(a) == IF IsSome(a.chain) THEN a.chain ELSE a.clientChain

\* transformHexValues: a hex string becomes a bigint, anything else is kept
TransformHex(f) == IF IsSome(f) THEN Some(Get(f).n) ELSE None

\* ...transaction, with type set and the numeric fields normalised
Transaction(a) ==
  [chainId |-> TransformHex(a.chainId), value |-> TransformHex(a.value),
   type |-> "eip712"]

\* the restricted pipeline: value ? BigInt(value) : 0n, chainId untouched
RTransaction(a) ==
  [chainId |-> IF IsSome(a.chainId) THEN Some(Get(a.chainId).n) ELSE None,
   value |-> IF IsSome(a.value) /\ Get(a.value).n # 0
             THEN Some(Get(a.value).n) ELSE Some(0),
   type |-> "eip712"]

\* (variant: the smart account is the from address in both modes)
FromAccountAlwaysSmartAccount(a) == AccountOf(a)

\* fromAccount = useSignerAddress ? signerClient.account : smartAccount
FromAccount(a) == IF a.useSignerAddress THEN a.signer ELSE AccountOf(a)

\* (variant: the check for getEip712Domain is left out)
PreflightErrorNoDomainCheck(a, allowed) ==
  IF AccountOf(a) = NoAccount THEN "AccountNotFoundError"
  ELSE IF ~a.wellFormed THEN "InvalidEip712TransactionError"
  ELSE IF ~IsSome(ChainOf(a)) \/ Get(ChainOf(a)).id \notin allowed
    THEN "Invalid chain specified"
  ELSE IF ~Get(ChainOf(a)).serializer
    THEN "transaction serializer not found on chain"
  ELSE NoError

\* (variant: the check for the serializer is left out)
PreflightErrorNoSerializerCheck(a, allowed) ==
  IF AccountOf(a) = NoAccount THEN "AccountNotFoundError"
  ELSE IF ~a.wellFormed THEN "InvalidEip712TransactionError"
  ELSE IF ~IsSome(ChainOf(a)) \/ Get(ChainOf(a)).id \notin allowed
    THEN "Invalid chain specified"
  ELSE IF ~Get(ChainOf(a)).getEip712Domain
    THEN "getEip712Domain not found on chain"
  ELSE NoError

\* The pre-flight checks, in the order of the code; NoError when all pass.
PreflightError(a, allowed) ==
  IF AccountOf(a) = NoAccount THEN "AccountNotFoundError"
  ELSE IF ~a.wellFormed THEN "InvalidEip712TransactionError"
  ELSE IF ~IsSome(ChainOf(a)) \/ Get(ChainOf(a)).id \notin allowed
    THEN "Invalid chain specified"
  ELSE IF ~Get(ChainOf(a)).getEip712Domain
    THEN "getEip712Domain not found on chain"
  ELSE IF ~Get(ChainOf(a)).serializer
    THEN "transaction serializer not found on chain"
  ELSE NoError

ValidateError(a) == PreflightError(a, VALID_CHAINS)
RValidateError(a) == PreflightError(a, ALLOWED_CHAINS)

\* (variant: the comparison with the declared chain is left out)
AssertCurrentChainSkipped(currentChainId, chain) == TRUE

\* assertCurrentChain({currentChainId, chain}): passes iff the ids agree
AssertCurrentChain(currentChainId, chain) == currentChainId = chain.id

\* the argument of getEip712Domain: {...transaction, chainId, from, type}
DomainArgs(tx, chainId, from) ==
  [chainId |-> chainId, value |-> tx.value, from |-> from, type |-> "eip712"]

\* getEip712Domain of the chain: the zkSync typed-data domain and message
GetEip712Domain(d) ==
  [domain |-> [name |-> "zkSync", version |-> "2", chainId |-> d.chainId],
   primaryType |-> "Transaction",
   message |-> [from |-> d.from, value |-> d.value, txType |-> 113]]

\* the argument of signTypedData: {...eip712Domain, account: signerClient.account}
SignArgs(a, eip712Domain) == [typedData |-> eip712Domain, account |-> a.signer]

\* address of the listHooks read
HookQueryAddress(a) == a.clientAccount

\* validationHookData[hook] ?? '0x'
HookPayload(map, hook) == IF hook \in DOMAIN map THEN map[hook] ELSE EmptyBytes

\* (variant: a hook without an entry in the map is skipped)
HookDataSkipMissing(map, validationHooks) ==
  LET present(h) == h \in DOMAIN map
      kept == SelectSeq(validationHooks, present)
  IN [i \in 1..Len(kept) |-> map[kept[i]]]

\* for (const hook of validationHooks) hookData.push(...)
HookData(map, validationHooks) ==
  [i \in 1..Len(validationHooks) |-> HookPayload(map, validationHooks[i])]

\* the transaction handed to the serializer:
\* {chainId, ...transaction, from, customSignature, type}
SerializerTx(tx, chainId, from, signature) ==
  [chainId |-> IF IsSome(tx.chainId) THEN Get(tx.chainId) ELSE chainId,
   value |-> tx.value, from |-> from, customSignature |-> signature,
   type |-> "eip712"]

\* chain.serializers.transaction(tx, {r: '0x0', s: '0x0', v: 0n})
Serialize(tx) == [signed |-> tx, r |-> 0, s |-> 0, v |-> 0]

\* ------------------------------------------------------------------- state
VARIABLES
  inp,   \* inp[p]: the arguments of invocation p
  pc,    \* pc[p]: "idle", the await the invocation is suspended at
         \* ("getChainId", "signTypedData", "listHooks"), "returned", "thrown"
  log,   \* log[p]: the pipeline steps invocation p has started, in order
  loc,   \* loc[p]: the local constants of invocation p, None until assigned
  out    \* out[p]: the value the promise resolved to, or the error thrown

vars == <<inp, pc, log, loc, out>>

NoLocals ==
  [chainId |-> None, domainArgs |-> None, signArgs |-> None,
   rawSignature |-> None, hookAddress |-> None, validationHooks |-> None,
   hookData |-> None, signature |-> None, serializerTx |-> None]

NoOutcome == [result |-> None, error |-> NoError]

\* whether, and how often, invocation p has started a pipeline step
Started(p, step) == \E i \in DOMAIN log[p] : log[p][i] = step
Count(p, step) == Cardinality({i \in DOMAIN log[p] : log[p][i] = step})

\* An argument record that never runs (a slot left unused).
Unused == CHOOSE a \in Inputs : TRUE

\* One invocation about to be made, with any arguments.
Init ==
  /\ \E a \in Inputs : inp = [p \in Procs |-> IF p = 1 THEN a ELSE Unused]
  /\ pc = [p \in Procs |-> IF p = 1 THEN "idle" ELSE "unused"]
  /\ log = [p \in Procs |-> <<>>]
  /\ loc = [p \in Procs |-> NoLocals]
  /\ out = [p \in Procs |-> NoOutcome]

\* ---------------------------------------------------------- step outcomes
\* throw e: the promise rejects, nothing else is assigned
Throw(p, e, steps, l) ==
  /\ pc' = [pc EXCEPT ![p] = "thrown"]
  /\ out' = [out EXCEPT ![p].error = e]
  /\ log' = [log EXCEPT ![p] = @ \o steps]
  /\ loc' = [loc EXCEPT ![p] = l]

\* suspend at the next await
Await(p, at, steps, l) ==
  /\ pc' = [pc EXCEPT ![p] = at]
  /\ log' = [log EXCEPT ![p] = @ \o steps]
  /\ loc' = [loc EXCEPT ![p] = l]
  /\ UNCHANGED out

\* return chain.serializers.transaction({...}, {...})
Return(p, steps, l) ==
  /\ pc' = [pc EXCEPT ![p] = "returned"]
  /\ out' = [out EXCEPT ![p].result = Some(Serialize(Get(l.serializerTx)))]
  /\ log' = [log EXCEPT ![p] = @ \o steps]
  /\ loc' = [loc EXCEPT ![p] = l]

\* From the call to the first await: destructuring, normalisation, the
\* pre-flight checks, then the getChainId request is issued.
Preflight(p, e) ==
  /\ pc[p] = "idle"
  /\ IF e # NoError
     THEN Throw(p, e, <<"Validate">>, loc[p])
     ELSE Await(p, "getChainId", <<"Validate", "ReadChainId">>, loc[p])
  /\ UNCHANGED inp

\* (variant: after a mismatch the chain id is read again)
AfterChainIdReread(p, tx, answer) ==
  LET a == inp[p]
      chainId == Get(answer)
      l1 == [loc[p] EXCEPT !.chainId = answer]
      d == DomainArgs(tx, chainId, FromAccount(a))
      l2 == [l1 EXCEPT !.domainArgs = Some(d),
                       !.signArgs = Some(SignArgs(a, GetEip712Domain(d)))]
  IN /\ pc[p] = "getChainId"
     /\ Len(log[p]) < 4
     /\ IF answer = Failure THEN Throw(p, "RpcRequestError", <<>>, loc[p])
        ELSE IF ~AssertCurrentChain(chainId, Get(ChainOf(a)))
          THEN Await(p, "getChainId", <<"ReadChainId">>, loc[p])
        ELSE Await(p, "signTypedData", <<"BuildDomain", "Sign">>, l2)
     /\ UNCHANGED inp

\* getChainId answered: assertCurrentChain, getEip712Domain, then the
\* signTypedData request is issued.
AfterChainId(p, tx, answer) ==
  LET a == inp[p]
      chainId == Get(answer)
      l1 == [loc[p] EXCEPT !.chainId = answer]
      d == DomainArgs(tx, chainId, FromAccount(a))
      l2 == [l1 EXCEPT !.domainArgs = Some(d),
                       !.signArgs = Some(SignArgs(a, GetEip712Domain(d)))]
  IN /\ pc[p] = "getChainId"
     /\ IF answer = Failure THEN Throw(p, "RpcRequestError", <<>>, loc[p])
        ELSE IF ~AssertCurrentChain(chainId, Get(ChainOf(a)))
          THEN Throw(p, "ChainMismatchError", <<>>, l1)
        ELSE Await(p, "signTypedData", <<"BuildDomain", "Sign">>, l2)
     /\ UNCHANGED inp

\* the direct branch: signature = rawSignature, then serialize
DirectSignature(p, tx, raw) ==
  LET a == inp[p]
      l1 == [loc[p] EXCEPT !.rawSignature = Some(raw), !.signature = Some(raw)]
      l2 == [l1 EXCEPT !.serializerTx =
               Some(SerializerTx(tx, Get(loc[p].chainId), FromAccount(a), raw))]
  IN Return(p, <<"Compose", "Serialize">>, l2)

\* the delegated branch once hookData is complete: encode, then serialize
ComposeAndSerialize(p, tx, l, steps) ==
  LET a == inp[p]
      raw == Get(l.rawSignature)
      signature == EncodeAbiParameters(raw, a.validator, Get(l.hookData))
      l1 == [l EXCEPT !.signature = Some(signature)]
      l2 == [l1 EXCEPT !.serializerTx =
               Some(SerializerTx(tx, Get(l.chainId), FromAccount(a), signature))]
  IN IF ~IsAddress(a.validator)
     THEN Throw(p, "InvalidAddressError", steps \o <<"Compose">>, l)
     ELSE Return(p, steps \o <<"Compose", "Serialize">>, l2)

\* ----------------------------------------------------------------- actions
\* signTransaction, configurable pipeline: the call
Call(p) ==
  /\ inp[p].variant = "configurable"
  /\ Preflight(p, ValidateError(inp[p]))

\* ... the live chain id arrives (or the read fails)
ChainIdReturn(p) ==
  /\ inp[p].variant = "configurable"
  /\ \E answer \in {Failure} \cup {Some(c) : c \in LiveChainIds} :
       AfterChainId(p, Transaction(inp[p]), answer)

\* (variant: a failed signing call is issued once more)
SignReturnRetry(p) ==
  /\ inp[p].variant = "configurable"
  /\ pc[p] = "signTypedData"
  /\ \E answer \in {Failure} \cup {Some(r) : r \in RawSignatures} :
       LET a == inp[p]
           l1 == [loc[p] EXCEPT !.rawSignature = answer]
           l2 == [l1 EXCEPT !.hookData = Some(<<>>),
                            !.hookAddress = Some(HookQueryAddress(a))]
       IN IF answer = Failure
          THEN IF Count(p, "Sign") < 2
               THEN Await(p, "signTypedData", <<"Sign">>, loc[p])
               ELSE Throw(p, "SignTypedDataError", <<>>, loc[p])
          ELSE IF a.useSignerAddress
            THEN DirectSignature(p, Transaction(a), Get(answer))
          ELSE IF HookQueryAddress(a) = NoAccount
            THEN Throw(p, "TypeError", <<>>, [l1 EXCEPT !.hookData = Some(<<>>)])
          ELSE Await(p, "listHooks", <<"ResolveHooks">>, l2)
  /\ UNCHANGED inp

\* (variant: the hook list is read in both modes)
SignReturnAlwaysReadsHooks(p) ==
  /\ inp[p].variant = "configurable"
  /\ pc[p] = "signTypedData"
  /\ \E answer \in {Failure} \cup {Some(r) : r \in RawSignatures} :
       LET a == inp[p]
           l1 == [loc[p] EXCEPT !.rawSignature = answer]
           l2 == [l1 EXCEPT !.hookData = Some(<<>>),
                            !.hookAddress = Some(HookQueryAddress(a))]
       IN IF answer = Failure THEN Throw(p, "SignTypedDataError", <<>>, loc[p])
          ELSE IF HookQueryAddress(a) = NoAccount
            THEN Throw(p, "TypeError", <<>>, [l1 EXCEPT !.hookData = Some(<<>>)])
          ELSE Await(p, "listHooks", <<"ResolveHooks">>, l2)
  /\ UNCHANGED inp

\* ... the signer answers (or fails); in the delegated branch the listHooks
\* read is issued at client.account.address
SignReturn(p) ==
  /\ inp[p].variant = "configurable"
  /\ pc[p] = "signTypedData"
  /\ \E answer \in {Failure} \cup {Some(r) : r \in RawSignatures} :
       LET a == inp[p]
           l1 == [loc[p] EXCEPT !.rawSignature = answer]
           l2 == [l1 EXCEPT !.hookData = Some(<<>>),
                            !.hookAddress = Some(HookQueryAddress(a))]
       IN IF answer = Failure THEN Throw(p, "SignTypedDataError", <<>>, loc[p])
          ELSE IF a.useSignerAddress
            THEN DirectSignature(p, Transaction(a), Get(answer))
          ELSE IF HookQueryAddress(a) = NoAccount
            THEN Throw(p, "TypeError", <<>>, [l1 EXCEPT !.hookData = Some(<<>>)])
          ELSE Await(p, "listHooks", <<"ResolveHooks">>, l2)
  /\ UNCHANGED inp

\* (variant: a failed hook-list read falls back to no hooks)
HooksReturnFallback(p) ==
  /\ inp[p].variant = "configurable"
  /\ pc[p] = "listHooks"
  /\ \E answer \in {Failure} \cup {Some(h) : h \in HookLists} :
       LET a == inp[p]
           hooks == IF answer = Failure THEN <<>> ELSE Get(answer)
           l1 == [loc[p] EXCEPT
                    !.validationHooks = answer,
                    !.hookData = Some(HookData(a.validationHookData, hooks))]
       IN ComposeAndSerialize(p, Transaction(a), l1, <<>>)
  /\ UNCHANGED inp

\* (variant: hookData is one module-level array that is never reset, so the
\* payloads pushed by the other invocations are still in it)
HooksReturnSharedArray(p) ==
  /\ inp[p].variant = "configurable"
  /\ pc[p] = "listHooks"
  /\ \E answer \in {Failure} \cup {Some(h) : h \in HookLists} :
       LET a == inp[p]
           others == Flatten([q \in Procs |->
                       IF q # p /\ IsSome(loc[q].validationHooks)
                       THEN Get(loc[q].hookData) ELSE <<>>])
           l1 == [loc[p] EXCEPT
                    !.validationHooks = answer,
                    !.hookData = Some(others
                       \o HookData(a.validationHookData, Get(answer)))]
       IN IF answer = Failure
          THEN Throw(p, "ContractFunctionExecutionError", <<>>, loc[p])
          ELSE ComposeAndSerialize(p, Transaction(a), l1, <<>>)
  /\ UNCHANGED inp

\* ... the enabled-hook list arrives (or the read fails)
HooksReturn(p) ==
  /\ inp[p].variant = "configurable"
  /\ pc[p] = "listHooks"
  /\ \E answer \in {Failure} \cup {Some(h) : h \in HookLists} :
       LET a == inp[p]
           l1 == [loc[p] EXCEPT
                    !.validationHooks = answer,
                    !.hookData = Some(HookData(a.validationHookData, Get(answer)))]
       IN IF answer = Failure
          THEN Throw(p, "ContractFunctionExecutionError", <<>>, loc[p])
          ELSE ComposeAndSerialize(p, Transaction(a), l1, <<>>)
  /\ UNCHANGED inp

\* signTransaction, restricted pipeline: the call
RCall(p) ==
  /\ inp[p].variant = "restricted"
  /\ Preflight(p, RValidateError(inp[p]))

\* ... the live chain id arrives (or the read fails)
RChainIdReturn(p) ==
  /\ inp[p].variant = "restricted"
  /\ \E answer \in {Failure} \cup {Some(c) : c \in LiveChainIds} :
       AfterChainId(p, RTransaction(inp[p]), answer)

\* (variant: the hook sequence is one empty payload instead of no payload)
RSignReturnOneEmptyPayload(p) ==
  /\ inp[p].variant = "restricted"
  /\ pc[p] = "signTypedData"
  /\ \E answer \in {Failure} \cup {Some(r) : r \in RawSignatures} :
       LET a == inp[p]
           l1 == [loc[p] EXCEPT !.rawSignature = answer,
                                !.hookData = Some(<<EmptyBytes>>)]
       IN IF answer = Failure THEN Throw(p, "SignTypedDataError", <<>>, loc[p])
          ELSE IF a.useSignerAddress
            THEN DirectSignature(p, RTransaction(a), Get(answer))
          ELSE ComposeAndSerialize(p, RTransaction(a), l1, <<>>)
  /\ UNCHANGED inp

\* ... the signer answers (or fails); the hook sequence is the literal []
RSignReturn(p) ==
  /\ inp[p].variant = "restricted"
  /\ pc[p] = "signTypedData"
  /\ \E answer \in {Failure} \cup {Some(r) : r \in RawSignatures} :
       LET a == inp[p]
           l1 == [loc[p] EXCEPT !.rawSignature = answer, !.hookData = Some(<<>>)]
       IN IF answer = Failure THEN Throw(p, "SignTypedDataError", <<>>, loc[p])
          ELSE IF a.useSignerAddress
            THEN DirectSignature(p, RTransaction(a), Get(answer))
          ELSE ComposeAndSerialize(p, RTransaction(a), l1, <<>>)
  /\ UNCHANGED inp

Next ==
  \E p \in Procs :
    \/ Call(p)
    \/ ChainIdReturn(p)
    \/ SignReturn(p)
    \/ HooksReturn(p)
    \/ RCall(p)
    \/ RChainIdReturn(p)
    \/ RSignReturn(p)

Spec == Init /\ [][Next]_vars

\* The event loop runs a called function up to its first await, and every
\* capability that was asked eventually answers or fails.
Fairness ==
  \A p \in Procs :
    /\ WF_vars(Call(p)) /\ WF_vars(RCall(p))
    /\ WF_vars(ChainIdReturn(p)) /\ WF_vars(RChainIdReturn(p))
    /\ WF_vars(SignReturn(p)) /\ WF_vars(RSignReturn(p))
    /\ WF_vars(HooksReturn(p))

InitLive ==
  /\ \E a \in LiveInputs : inp = [p \in Procs |-> IF p = 1 THEN a ELSE Unused]
  /\ pc = [p \in Procs |-> IF p = 1 THEN "idle" ELSE "unused"]
  /\ log = [p \in Procs |-> <<>>]
  /\ loc = [p \in Procs |-> NoLocals]
  /\ out = [p \in Procs |-> NoOutcome]

SpecLive == InitLive /\ [][Next]_vars /\ Fairness

\* The same request given to the restricted pipeline (invocation 1) and to
\* the configurable pipeline (invocation 2).
InitPair ==
  /\ \E a \in PairInputs :
       inp = [p \in Procs |-> IF p = 1 THEN a
                              ELSE [a EXCEPT !.variant = "configurable"]]
  /\ pc = [p \in Procs |-> "idle"]
  /\ log = [p \in Procs |-> <<>>]
  /\ loc = [p \in Procs |-> NoLocals]
  /\ out = [p \in Procs |-> NoOutcome]

SpecPair == InitPair /\ [][Next]_vars

\* Two invocations in flight at once, their steps interleaved in any order.
InitConc ==
  /\ inp \in [Procs -> ConcInputs]
  /\ pc = [p \in Procs |-> "idle"]
  /\ log = [p \in Procs |-> <<>>]
  /\ loc = [p \in Procs |-> NoLocals]
  /\ out = [p \in Procs |-> NoOutcome]

SpecConc == InitConc /\ [][Next]_vars

\* ------------------------------------------------------------------ claims
Configurable(p) == inp[p].variant = "configurable"
Delegated(p) == ~inp[p].useSignerAddress
DeclaredChainId(p) == Get(ChainOf(inp[p])).id

\* C1: whenever the live chain id an invocation read differs from the id of
\* its declared chain, the invocation has ended with ChainMismatchError and
\* has not invoked the signer, the hook-list read or the serializer.
C1_ChainMismatchShortCircuits ==
  \A p \in Procs :
    (IsSome(loc[p].chainId) /\ Get(loc[p].chainId) # DeclaredChainId(p))
      => /\ pc[p] = "thrown"
         /\ out[p].error = "ChainMismatchError"
         /\ out[p].result = None
         /\ log[p] = <<"Validate", "ReadChainId">>
         /\ loc[p].signArgs = None
         /\ loc[p].rawSignature = None
         /\ loc[p].hookAddress = None
         /\ loc[p].serializerTx = None

\* C1 witness: an invocation that read a live chain id other than the
\* declared one and ended with the mismatch error.
C1_Witness ==
  \E p \in Procs :
    /\ Configurable(p)
    /\ IsSome(loc[p].chainId)
    /\ Get(loc[p].chainId) # DeclaredChainId(p)
    /\ out[p].error = "ChainMismatchError"

\* C2: in every successful invocation the chain id read live equals the
\* chainId given to getEip712Domain and the chainId of the transaction
\* handed to the serializer, also when the request carries a chainId.
C2_LiveChainIdInDomainAndTransaction ==
  \A p \in Procs :
    (Configurable(p) /\ pc[p] = "returned")
      => /\ Get(loc[p].domainArgs).chainId = Get(loc[p].chainId)
         /\ Get(loc[p].serializerTx).chainId = Get(loc[p].chainId)

\* C3: in Delegated mode of the configurable pipeline, once the enabled-hook
\* list has been read, the hook payload sequence is as long as the list, its
\* i-th element is the payload of the map for the i-th hook or empty bytes,
\* a missing entry raises no error, and the composite signature carries
\* exactly that sequence.
C3_HookPayloadsFollowLiveList ==
  \A p \in Procs :
    (Configurable(p) /\ Delegated(p) /\ IsSome(loc[p].validationHooks))
      => LET hooks == Get(loc[p].validationHooks)
             map == inp[p].validationHookData
             data == Get(loc[p].hookData)
         IN /\ Len(data) = Len(hooks)
            /\ \A i \in 1..Len(hooks) :
                 data[i] = IF hooks[i] \in DOMAIN map THEN map[hooks[i]]
                           ELSE <<>>
            /\ out[p].error \in {NoError, "InvalidAddressError"}
            /\ IsAddress(inp[p].validator)
                 => /\ pc[p] = "returned"
                    /\ DecodeAbiParameters(Get(loc[p].signature))[3] = data

\* C3 witness: the scenario of the spec, map {hookA: 0x1234} against the live
\* list [hookA, hookB], gives [0x1234, 0x].
C3_Witness ==
  \E p \in Procs :
    /\ Configurable(p) /\ Delegated(p) /\ pc[p] = "returned"
    /\ DOMAIN inp[p].validationHookData = {HookA}
    /\ loc[p].validationHooks = Some(<<HookA, HookB>>)
    /\ loc[p].hookData = Some(<<Payload1, EmptyBytes>>)

\* C4: the customSignature handed to the serializer is the raw signature of
\* the signer, unchanged (65 bytes), in Direct mode, and in Delegated mode an
\* encoding that decodes to (raw signature, validator, hook payload sequence)
\* in that order; in both pipelines.
C4_ComposedSignature ==
  \A p \in Procs :
    pc[p] = "returned"
      => LET sig == Get(loc[p].serializerTx).customSignature
             raw == Get(loc[p].rawSignature)
         IN IF inp[p].useSignerAddress
            THEN sig = raw /\ (Len(raw) = 65 => Len(sig) = 65)
            ELSE /\ DecodeAbiParameters(sig)[1] = raw
                 /\ DecodeAbiParameters(sig)[2] = inp[p].validator
                 /\ DecodeAbiParameters(sig)[3] = Get(loc[p].hookData)
                 /\ Len(sig) % 32 = 0

\* C4 witness: a Delegated invocation with a non-empty hook payload sequence
\* has returned (a Direct one is reached as well, see C10).
C4_Witness ==
  \E p \in Procs :
    /\ pc[p] = "returned" /\ Delegated(p)
    /\ Len(Get(loc[p].hookData)) = MaxHooks
    /\ Get(loc[p].rawSignature) = Sig2

\* the place of a step in Validate -> ReadChainId -> BuildDomain -> Sign ->
\* [ResolveHooks] -> Compose -> Serialize
Rank(step) ==
  CASE step = "Validate" -> 1
    [] step = "ReadChainId" -> 2
    [] step = "BuildDomain" -> 3
    [] step = "Sign" -> 4
    [] step = "ResolveHooks" -> 5
    [] step = "Compose" -> 6
    [] step = "Serialize" -> 7

V_R == <<"Validate", "ReadChainId">>
V_S == <<"Validate", "ReadChainId", "BuildDomain", "Sign">>

\* C5: the steps an invocation of the configurable pipeline has started are
\* in the fixed order, none twice, each only once its predecessor has
\* produced its value (the signer after the chain id and the domain, the
\* serializer after the signature), ResolveHooks in Delegated mode only.
C5_StepsInFixedOrder ==
  \A p \in Procs :
    Configurable(p) =>
      /\ \A i, j \in DOMAIN log[p] : i < j => Rank(log[p][i]) < Rank(log[p][j])
      /\ log[p] # <<>> => log[p][1] = "Validate"
      /\ Started(p, "ReadChainId") => Started(p, "Validate")
      /\ Started(p, "BuildDomain")
           => Started(p, "ReadChainId") /\ IsSome(loc[p].chainId)
      /\ Started(p, "Sign")
           => /\ Started(p, "BuildDomain")
              /\ IsSome(loc[p].chainId) /\ IsSome(loc[p].domainArgs)
      /\ Started(p, "ResolveHooks")
           => Delegated(p) /\ Started(p, "Sign") /\ IsSome(loc[p].rawSignature)
      /\ Started(p, "Compose")
           => /\ Started(p, "Sign") /\ IsSome(loc[p].rawSignature)
              /\ Delegated(p) => /\ Started(p, "ResolveHooks")
                                 /\ IsSome(loc[p].validationHooks)
      /\ Started(p, "Serialize")
           => Started(p, "Compose") /\ IsSome(loc[p].signature)
      /\ pc[p] = "getChainId" => log[p] = V_R
      /\ pc[p] = "signTypedData" => log[p] = V_S
      /\ pc[p] = "listHooks" => log[p] = V_S \o <<"ResolveHooks">>
      /\ pc[p] = "returned"
           => log[p] = V_S \o (IF Delegated(p) THEN <<"ResolveHooks">> ELSE <<>>)
                           \o <<"Compose", "Serialize">>

\* C5 witness: a Delegated invocation went through all seven steps.
C5_Witness ==
  \E p \in Procs :
    Configurable(p) /\ pc[p] = "returned" /\ Len(log[p]) = 7

\* C6: an invocation of the configurable pipeline invokes no external
\* capability more than once, failed or not, and a successful Delegated one
\* has issued exactly one chain-id read, one listHooks read and one signing
\* call.
C6_EachCapabilityOnce ==
  \A p \in Procs :
    Configurable(p) =>
      /\ \A step \in {"ReadChainId", "BuildDomain", "Sign", "ResolveHooks",
                      "Serialize"} : Count(p, step) <= 1
      /\ (pc[p] = "returned" /\ Delegated(p))
           => /\ Count(p, "ReadChainId") = 1
              /\ Count(p, "ResolveHooks") = 1
              /\ Count(p, "Sign") = 1

\* C6 witness: the signing call failed after the chain id was read; it was
\* made once.
C6_Witness ==
  \E p \in Procs :
    /\ Configurable(p) /\ Delegated(p)
    /\ out[p].error = "SignTypedDataError"
    /\ Count(p, "Sign") = 1 /\ Count(p, "ReadChainId") = 1

\* the steps started when error e is thrown
StepsAtError(p, e) ==
  CASE e \in {"AccountNotFoundError", "InvalidEip712TransactionError",
              "Invalid chain specified", "getEip712Domain not found on chain",
              "transaction serializer not found on chain"} -> <<"Validate">>
    [] e \in {"RpcRequestError", "ChainMismatchError"} -> V_R
    [] e \in {"SignTypedDataError", "TypeError"} -> V_S
    [] e = "ContractFunctionExecutionError" -> V_S \o <<"ResolveHooks">>
    [] e = "InvalidAddressError" ->
         V_S \o (IF Configurable(p) THEN <<"ResolveHooks">> ELSE <<>>)
             \o <<"Compose">>

\* C7: an invocation that failed stopped at the failing step: no later step
\* was started, the serializer was not invoked, no signed bytes and no
\* composite signature exist, and the error is what the caller gets; an
\* invocation that returned had every capability succeed.
C7_AbortsAtFirstError ==
  \A p \in Procs :
    /\ (pc[p] = "thrown") <=> (out[p].error # NoError)
    /\ pc[p] = "thrown"
         => /\ out[p].result = None
            /\ loc[p].serializerTx = None
            /\ loc[p].signature = None
            /\ ~Started(p, "Serialize")
            /\ log[p] = StepsAtError(p, out[p].error)
    /\ pc[p] = "returned"
         => /\ IsSome(out[p].result)
            /\ IsSome(loc[p].chainId) /\ IsSome(loc[p].rawSignature)
            /\ (Configurable(p) /\ Delegated(p)) => IsSome(loc[p].validationHooks)
            /\ Delegated(p) => IsAddress(inp[p].validator)

\* C7 witness: the hook-registry read failed after the signer had answered.
C7_Witness ==
  \E p \in Procs :
    /\ pc[p] = "thrown"
    /\ out[p].error = "ContractFunctionExecutionError"
    /\ IsSome(loc[p].rawSignature)

\* C8: two invocations with identical arguments that read the same live
\* chain id derive the domain from identical arguments; if they read the
\* same hook list they build identical hook payload sequences; if the signer
\* also gave both the same raw signature the serializer inputs are identical.
C8_Determinism ==
  \A p, q \in Procs :
    (p # q /\ inp[p] = inp[q]) =>
      /\ (IsSome(loc[p].domainArgs) /\ IsSome(loc[q].domainArgs)
            /\ loc[p].chainId = loc[q].chainId)
           => loc[p].domainArgs = loc[q].domainArgs
      /\ (IsSome(loc[p].validationHooks)
            /\ loc[p].validationHooks = loc[q].validationHooks)
           => loc[p].hookData = loc[q].hookData
      /\ (pc[p] = "returned" /\ pc[q] = "returned"
            /\ loc[p].chainId = loc[q].chainId
            /\ loc[p].validationHooks = loc[q].validationHooks
            /\ loc[p].rawSignature = loc[q].rawSignature)
           => loc[p].serializerTx = loc[q].serializerTx

\* C8 witness: two Delegated invocations with the same arguments returned
\* after reading the same non-empty hook list and getting the same signature.
C8_Witness ==
  \E p, q \in Procs :
    /\ p # q /\ inp[p] = inp[q] /\ Configurable(p) /\ Delegated(p)
    /\ pc[p] = "returned" /\ pc[q] = "returned"
    /\ loc[p].validationHooks = Some(<<HookA, HookB>>)
    /\ loc[q].validationHooks = Some(<<HookA, HookB>>)
    /\ loc[p].rawSignature = loc[q].rawSignature
    /\ DOMAIN inp[p].validationHookData = {HookA}

\* what invocation p computes from its own arguments and its own reads alone
OwnFrom(p) ==
  IF inp[p].useSignerAddress THEN inp[p].signer
  ELSE IF inp[p].account # NoAccount THEN inp[p].account
  ELSE inp[p].clientAccount
OwnValue(p) ==
  IF Configurable(p)
  THEN (IF IsSome(inp[p].value) THEN Some(Get(inp[p].value).n) ELSE None)
  ELSE (IF IsSome(inp[p].value) THEN Some(Get(inp[p].value).n) ELSE Some(0))
OwnHookData(p) ==
  IF Configurable(p) /\ IsSome(loc[p].validationHooks)
  THEN [i \in 1..Len(Get(loc[p].validationHooks)) |->
          IF Get(loc[p].validationHooks)[i] \in DOMAIN inp[p].validationHookData
          THEN inp[p].validationHookData[Get(loc[p].validationHooks)[i]]
          ELSE <<>>]
  ELSE <<>>

RunsAsIfAlone(p) ==
  /\ IsSome(loc[p].domainArgs)
       => Get(loc[p].domainArgs) =
            [chainId |-> Get(loc[p].chainId), value |-> OwnValue(p),
             from |-> OwnFrom(p), type |-> "eip712"]
  /\ IsSome(loc[p].validationHooks) => Get(loc[p].hookData) = OwnHookData(p)
  /\ pc[p] = "returned"
       => /\ IF inp[p].useSignerAddress
             THEN loc[p].signature = loc[p].rawSignature
             ELSE DecodeAbiParameters(Get(loc[p].signature)) =
                    <<Get(loc[p].rawSignature), inp[p].validator, OwnHookData(p)>>
          /\ Get(loc[p].serializerTx) =
               [chainId |-> IF IsSome(inp[p].chainId) THEN Get(inp[p].chainId).n
                            ELSE Get(loc[p].chainId),
                value |-> OwnValue(p), from |-> OwnFrom(p),
                customSignature |-> Get(loc[p].signature), type |-> "eip712"]

StepOf(p) == pc'[p] # pc[p]

\* C9: under every interleaving of two invocations, each one's domain
\* input, hook payload sequence, composite signature and serializer input
\* are what its own arguments and its own reads give, and a step of one
\* invocation changes nothing of the other.
C9_InvocationsIndependent ==
  /\ [](\A p \in Procs : RunsAsIfAlone(p))
  /\ [][\A p \in Procs : StepOf(p) =>
          \A q \in Procs \ {p} :
            /\ pc'[q] = pc[q] /\ loc'[q] = loc[q]
            /\ out'[q] = out[q] /\ log'[q] = log[q]]_vars

\* C9 witness: two Delegated invocations with different hook payload maps
\* and different signers have both returned, with different hook payload
\* sequences.
C9_Witness ==
  \E p, q \in Procs :
    /\ pc[p] = "returned" /\ pc[q] = "returned"
    /\ Configurable(p) /\ Configurable(q) /\ Delegated(p) /\ Delegated(q)
    /\ inp[p].signer # inp[q].signer
    /\ loc[p].hookData = Some(<<Payload1>>)
    /\ loc[q].hookData = Some(<<EmptyBytes, EmptyBytes>>)
    /\ loc[p].chainId = loc[q].chainId

\* C10: a Direct invocation of the configurable pipeline never reads the
\* hook registry and its output does not depend on validationHookData; a
\* Delegated one issues the read after the signer has returned and before
\* the signature is composed.
C10_HooksOnlyWhenDelegated ==
  \A p \in Procs :
    Configurable(p) =>
      /\ ~Delegated(p)
           => /\ ~Started(p, "ResolveHooks")
              /\ loc[p].hookAddress = None
              /\ loc[p].validationHooks = None
              /\ loc[p].hookData = None
              /\ pc[p] # "listHooks"
              /\ pc[p] = "returned"
                   => Get(loc[p].serializerTx).customSignature
                        = Get(loc[p].rawSignature)
      /\ Delegated(p)
           => /\ \A i \in DOMAIN log[p] :
                   log[p][i] = "ResolveHooks"
                     => /\ \E k \in 1..(i - 1) : log[p][k] = "Sign"
                        /\ \A k \in 1..i : log[p][k] # "Compose"
              /\ Started(p, "ResolveHooks") => IsSome(loc[p].rawSignature)
              /\ pc[p] = "listHooks" => loc[p].signature = None
              /\ Started(p, "Compose") => Started(p, "ResolveHooks")

\* C10 witness: a Direct invocation called with a non-empty hook payload map
\* has returned.
C10_Witness ==
  \E p \in Procs :
    /\ Configurable(p) /\ ~Delegated(p) /\ pc[p] = "returned"
    /\ DOMAIN inp[p].validationHookData = {HookA, HookB}

\* the account and the chain an invocation resolves, and its allow-list
ResolvedAccount(p) ==
  IF inp[p].account # NoAccount THEN inp[p].account ELSE inp[p].clientAccount
ResolvedChain(p) ==
  IF inp[p].chain # None THEN inp[p].chain ELSE inp[p].clientChain
SupportedIds(p) ==
  IF Configurable(p) THEN {AbstractTestnetId, AbstractMainnetId}
  ELSE {AbstractTestnetId}
HasBegun(p) == pc[p] \notin {"idle", "unused"}

NoAccountResolvable(p) == ResolvedAccount(p) = NoAccount
NoSupportedChain(p) ==
  \/ ResolvedChain(p) = None
  \/ Get(ResolvedChain(p)).id \notin SupportedIds(p)
NoDomainFunction(p) ==
  ResolvedChain(p) # None /\ ~Get(ResolvedChain(p)).getEip712Domain
NoSerializer(p) ==
  ResolvedChain(p) # None /\ ~Get(ResolvedChain(p)).serializer

\* C11: in both pipelines, an invocation with no resolvable account, no
\* declared chain, an unsupported chain or a chain without getEip712Domain
\* fails with the error of the first failing check and has issued no
\* chain-id read, no signing call, no hook read and no serializer call.
C11_PreflightFailsBeforeAnyCall ==
  \A p \in Procs :
    (HasBegun(p)
       /\ (NoAccountResolvable(p) \/ NoSupportedChain(p) \/ NoDomainFunction(p)))
      => /\ pc[p] = "thrown"
         /\ out[p].error =
              IF NoAccountResolvable(p) THEN "AccountNotFoundError"
              ELSE IF ~inp[p].wellFormed THEN "InvalidEip712TransactionError"
              ELSE IF NoSupportedChain(p) THEN "Invalid chain specified"
              ELSE "getEip712Domain not found on chain"
         /\ out[p].result = None
         /\ log[p] = <<"Validate">>
         /\ loc[p] = NoLocals

\* C11 witness: the restricted pipeline called with the main network, which
\* its allow-list does not hold, has thrown.
C11_Witness ==
  \E p \in Procs :
    /\ ~Configurable(p) /\ pc[p] = "thrown"
    /\ ResolvedChain(p) # None
    /\ Get(ResolvedChain(p)).id = AbstractMainnetId
    /\ out[p].error = "Invalid chain specified"

SerializerMissingError == "transaction serializer not found on chain"

\* C12 (as stated): the missing-serializer error is raised at the last step,
\* after Validate, BuildDomain, Sign, ResolveHooks and Compose have run.
C12_SerializerErrorAtLastStep ==
  \A p \in Procs :
    out[p].error = SerializerMissingError
      => /\ Started(p, "Validate") /\ Started(p, "BuildDomain")
         /\ Started(p, "Sign") /\ Started(p, "Compose")
         /\ (Configurable(p) /\ Delegated(p)) => Started(p, "ResolveHooks")

\* C12 (amended): a chain binding without a serializer is rejected by the
\* pre-flight checks: when the earlier checks pass, the invocation throws
\* the missing-serializer error with Validate as its only step, before the
\* chain-id read, the domain, the signer, the hooks and the composition; the
\* serializer step is only ever started on a chain that has a serializer.
C12_SerializerErrorAtPreflight ==
  \A p \in Procs :
    /\ (HasBegun(p) /\ NoSerializer(p) /\ inp[p].wellFormed
          /\ ~NoAccountResolvable(p) /\ ~NoSupportedChain(p)
          /\ ~NoDomainFunction(p))
         => pc[p] = "thrown" /\ out[p].error = SerializerMissingError
    /\ out[p].error = SerializerMissingError
         => log[p] = <<"Validate">> /\ loc[p] = NoLocals /\ out[p].result = None
    /\ Started(p, "Serialize") => ~NoSerializer(p)

\* C12 witness: an invocation on a chain without a serializer has thrown.
C12_Witness ==
  \E p \in Procs :
    /\ pc[p] = "thrown" /\ NoSerializer(p)
    /\ out[p].error = SerializerMissingError

\* C13: in both pipelines the from address given to getEip712Domain and to
\* the serializer is the signer address in Direct mode and the smart-account
\* address (args.account if given, else client.account) in Delegated mode,
\* and signTypedData is called with the account of the signer, never with
\* the smart account.
C13_FromAddressByMode ==
  \A p \in Procs :
    LET smart == IF inp[p].account # NoAccount THEN inp[p].account
                 ELSE inp[p].clientAccount
        from == IF inp[p].useSignerAddress THEN inp[p].signer ELSE smart
    IN /\ IsSome(loc[p].domainArgs) => Get(loc[p].domainArgs).from = from
       /\ IsSome(loc[p].signArgs)
            => /\ Get(loc[p].signArgs).account = inp[p].signer
               /\ Get(loc[p].signArgs).account # smart
               /\ Get(loc[p].signArgs).typedData.message.from = from
       /\ IsSome(loc[p].serializerTx) => Get(loc[p].serializerTx).from = from

\* C13 witness: a Direct invocation on an account override has returned with
\* the signer as from address.
C13_Witness ==
  \E p \in Procs :
    /\ pc[p] = "returned" /\ inp[p].useSignerAddress
    /\ inp[p].account = OverrideAccount
    /\ Get(loc[p].serializerTx).from = inp[p].signer
    /\ Get(loc[p].domainArgs).from = inp[p].signer

Succeeded(p) ==
  pc[p] = "returned" /\ IsSome(out[p].result) /\ out[p].error = NoError
Failed(p) ==
  pc[p] = "thrown" /\ out[p].result = None /\ out[p].error # NoError

\* C14: when every capability eventually answers or fails, every invocation
\* eventually is in exactly one terminal state, serialized bytes or the
\* first error, whatever hook list is returned, and stays there.
C14_EveryInvocationTerminates ==
  /\ \A p \in Procs : (pc[p] = "idle") ~> (Succeeded(p) \/ Failed(p))
  /\ [](\A p \in Procs : /\ ~(Succeeded(p) /\ Failed(p))
                         /\ pc[p] = "returned" => Succeeded(p)
                         /\ pc[p] = "thrown" => Failed(p))
  /\ [][\A p \in Procs : (Succeeded(p) \/ Failed(p))
          => pc'[p] = pc[p] /\ out'[p] = out[p]]_vars

\* C14 witness: an invocation that read a hook list of the greatest length
\* has returned its serialized bytes.
C14_Witness ==
  \E p \in Procs :
    /\ Succeeded(p)
    /\ IsSome(loc[p].validationHooks)
    /\ Len(Get(loc[p].validationHooks)) = MaxHooks

\* C15: in Delegated mode the account whose enabled-hook list is read is the
\* account whose address is the from address of the transaction, also when
\* the request overrides the account.
C15_HooksReadFromTransactionAccount ==
  \A p \in Procs :
    (Configurable(p) /\ Delegated(p) /\ IsSome(loc[p].hookAddress))
      => /\ Get(loc[p].hookAddress) = Get(loc[p].domainArgs).from
         /\ IsSome(loc[p].serializerTx)
              => Get(loc[p].hookAddress) = Get(loc[p].serializerTx).from

\* the first n steps of invocation p
StepsUpTo(p, n) == SubSeq(log[p], 1, IF Len(log[p]) < n THEN Len(log[p]) ELSE n)

\* C16: for the same request on the test network, the restricted pipeline and
\* the configurable pipeline with an empty validationHookData go through the
\* same chain-id read, domain derivation (same chain id, same from address)
\* and signing call (same signer account); and in Delegated mode, when the
\* live hook list is empty and the signer gives both the same signature, the
\* composite signatures are equal and the hook payload sequence of the
\* restricted pipeline has the length of the live list.
C16_RestrictedMatchesConfigurable ==
  \A p, q \in Procs :
    (~Configurable(p) /\ Configurable(q)
       /\ inp[q] = [inp[p] EXCEPT !.variant = "configurable"]
       /\ DOMAIN inp[q].validationHookData = {})
      => /\ (pc[p] # "idle" /\ pc[q] # "idle")
              => StepsUpTo(p, 2) = StepsUpTo(q, 2)
         /\ (IsSome(loc[p].chainId) /\ loc[p].chainId = loc[q].chainId)
              => /\ StepsUpTo(p, 4) = StepsUpTo(q, 4)
                 /\ IsSome(loc[p].domainArgs) <=> IsSome(loc[q].domainArgs)
                 /\ IsSome(loc[p].domainArgs)
                      => /\ Get(loc[p].domainArgs).chainId
                              = Get(loc[q].domainArgs).chainId
                         /\ Get(loc[p].domainArgs).from
                              = Get(loc[q].domainArgs).from
                         /\ Get(loc[p].signArgs).typedData.domain
                              = Get(loc[q].signArgs).typedData.domain
                         /\ Get(loc[p].signArgs).account
                              = Get(loc[q].signArgs).account
         /\ (Delegated(p) /\ pc[p] = "returned" /\ pc[q] = "returned"
               /\ loc[p].rawSignature = loc[q].rawSignature
               /\ loc[q].validationHooks = Some(<<>>))
              => /\ loc[p].signature = loc[q].signature
                 /\ DecodeAbiParameters(Get(loc[p].signature)) =
                      <<Get(loc[p].rawSignature), inp[p].validator, <<>>>>
                 /\ Len(Get(loc[p].hookData)) = Len(Get(loc[q].validationHooks))
                 /\ loc[p].hookData = loc[q].hookData

\* C16 witness: both pipelines returned in Delegated mode for a request
\* without value, the live hook list being empty.
C16_Witness ==
  \E p, q \in Procs :
    /\ ~Configurable(p) /\ Configurable(q) /\ Delegated(p) /\ Delegated(q)
    /\ pc[p] = "returned" /\ pc[q] = "returned"
    /\ inp[p].value = None
    /\ loc[p].rawSignature = loc[q].rawSignature
    /\ loc[q].validationHooks = Some(<<>>)

====
